---- MODULE Spec2Model ----
(***************************************************************************)
(* A model of DatastoreMongoStub (src/datastore_mongo_stub.py): the key    *)
(* codec, the value codec, the document store behind Put/Get/Delete, the   *)
(* query translation of RunQuery and the cursor registry of Next/Count.    *)
(*                                                                         *)
(* Strings are sequences of one-character tokens.  TAB is the numeric-id   *)
(* marker "\t" and SEP the separator "\10" (octal 10, the byte 8) of       *)
(* __id_for_key.                                                           *)
(***************************************************************************)
EXTENDS Integers, Sequences, FiniteSets, TLC

TAB == "\t"
SEP == "^H"
NL == "\n"

\* One character outside ASCII (U+00E9).
NonAscii == "u00e9"

Digits == <<"0", "1", "2", "3", "4", "5", "6", "7", "8", "9">>

(* ---------------------------------------------------------------- bounds *)
MaxPathLen == 2
MaxId == 2
IdStep == 7
MaxListLen == 2
MaxRand == 1
MaxDocs == 2
MaxQueries == 1
MaxCount == 2

\* The runs on cursors: documents stored, queries run.
MaxCursorDocs == 3

MaxCursorQueries == 1

\* The runs on the cursor table and the query history.
MaxTableDocs == 1

MaxTableQueries == 2

\* The runs of concurrent calls: threads, handles allocated.
MaxThreads == 2

MaxHandles == 3

(* ------------------------------------------------------- string helpers *)
IsDigit(c) == \E d \in 1..10 : Digits[d] = c

DigitVal(c) == (CHOOSE d \in 1..10 : Digits[d] = c) - 1

RECURSIVE NatToStr(_)
NatToStr(n) ==
  IF n < 10 THEN <<Digits[n + 1]>>
  ELSE NatToStr(n \div 10) \o <<Digits[(n % 10) + 1]>>

\* str(elem.id()) of a Python integer: decimal, a leading "-" when negative.
IntToStr(n) == IF n < 0 THEN <<"-">> \o NatToStr(0 - n) ELSE NatToStr(n)

RECURSIVE DigitsToNat(_)
DigitsToNat(s) ==
  IF Len(s) = 0 THEN 0
  ELSE DigitsToNat(SubSeq(s, 1, Len(s) - 1)) * 10 + DigitVal(s[Len(s)])

RECURSIVE StripWs(_)
StripWs(s) ==
  IF Len(s) > 0 /\ s[1] \in {TAB, NL} THEN StripWs(Tail(s))
  ELSE IF Len(s) > 0 /\ s[Len(s)] \in {TAB, NL} THEN StripWs(SubSeq(s, 1, Len(s) - 1))
  ELSE s

\* int(text) of a stripped text t, signed or not, with digits `body`.
ParseBody(t, signed, body) ==
  IF Len(body) > 0 /\ \A i \in 1..Len(body) : IsDigit(body[i])
  THEN [ok |-> TRUE,
        int |-> IF signed /\ t[1] = "-" THEN 0 - DigitsToNat(body)
                ELSE DigitsToNat(body)]
  ELSE [ok |-> FALSE, int |-> 0]

\* Python's int(text): surrounding whitespace is dropped, one sign is
\* allowed, the rest must be one or more decimal digits; anything else
\* raises ValueError.
ParseInt(s) ==
  LET t == StripWs(s)
  IN ParseBody(t, Len(t) > 0 /\ t[1] \in {"-", "+"},
               IF Len(t) > 0 /\ t[1] \in {"-", "+"} THEN Tail(t) ELSE t)

\* sep.join(parts)
RECURSIVE Join(_, _)
Join(parts, sep) ==
  IF Len(parts) = 0 THEN <<>>
  ELSE IF Len(parts) = 1 THEN parts[1]
  ELSE parts[1] \o sep \o Join(Tail(parts), sep)

\* text.split(sep) for a one-character sep: always at least one part.
RECURSIVE SplitFrom(_, _, _)
SplitFrom(s, sep, cur) ==
  IF Len(s) = 0 THEN <<cur>>
  ELSE IF s[1] = sep THEN <<cur>> \o SplitFrom(Tail(s), sep, <<>>)
  ELSE SplitFrom(Tail(s), sep, Append(cur, s[1]))

Split(s, sep) == SplitFrom(s, sep, <<>>)

(* ------------------------------------------------------------ key codec *)
\* A key is its path: a sequence of elements.  An element has a type (the
\* kind) and either a name (has_name) or a numeric id; id = 0 without a
\* name is the incomplete element Put completes.
NameElem(kind, name) == [type |-> kind, has_name |-> TRUE, name |-> name, id |-> 0]

IdElem(kind, id) == [type |-> kind, has_name |-> FALSE, name |-> <<>>, id |-> id]

__collection_for_key(key) == key[Len(key)].type

add_element_to_db_path(elem) ==
  IF elem.has_name THEN <<elem.type, elem.name>>
  ELSE <<elem.type, <<TAB>> \o IntToStr(elem.id)>>

\* (mutation: elements are inserted at the front, leaf first)
RECURSIVE db_path_LeafFirst(_)
db_path_LeafFirst(key) ==
  IF Len(key) = 0 THEN <<>>
  ELSE db_path_LeafFirst(Tail(key)) \o add_element_to_db_path(key[1])

RECURSIVE db_path(_)
db_path(key) ==
  IF Len(key) = 0 THEN <<>>
  ELSE add_element_to_db_path(key[1]) \o db_path(Tail(key))

__id_for_key(key) == Join(db_path(key), <<SEP>>)

\* from_db: a part that starts with the marker is read as an integer.
from_db(value) ==
  IF Len(value) > 0 /\ value[1] = TAB
  THEN LET p == ParseInt(Tail(value))
       IN IF p.ok THEN [t |-> "int", int |-> p.int] ELSE [t |-> "ValueError"]
  ELSE [t |-> "str", str |-> value]

\* datastore_types.Key.from_path(*args): an even, non-zero number of
\* arguments, every kind a non-empty string, every identifier an integer
\* or a non-empty string; anything else raises.
from_path(args) ==
  LET n == Len(args)
      good == /\ n > 0
              /\ n % 2 = 0
              /\ \A i \in 1..n : args[i].t \in {"int", "str"}
              /\ \A i \in 1..n : (i % 2 = 1) => (args[i].t = "str" /\ Len(args[i].str) > 0)
              /\ \A i \in 1..n : (args[i].t = "str") => Len(args[i].str) > 0
  IN IF ~good THEN [ok |-> FALSE, key |-> <<>>]
     ELSE [ok |-> TRUE,
           key |-> [j \in 1..(n \div 2) |->
                      IF args[2 * j].t = "str"
                      THEN NameElem(args[2 * j - 1].str, args[2 * j].str)
                      ELSE IdElem(args[2 * j - 1].str, args[2 * j].int)]]

\* __key_for_id: [ok |-> TRUE, key |-> k], or ok = FALSE when int() or
\* Key.from_path raises.
__key_for_id(id) ==
  LET parts == Split(id, SEP)
  IN from_path([i \in 1..Len(parts) |-> from_db(parts[i])])

(* ---------------------------------------------------------- value codec *)
\* A logical (Python) value is a record tagged with its type:
\*   bool, int, float, str (plain string), Blob, Text, Category, Email
\*   (string subclasses), Rating (an integer subclass), Key, GeoPt, User,
\*   IM, and list (a Python list of non-list values).
\* A stored (Mongo) value is a plain scalar (the same record), a Binary
\* [binary |-> s], or a tagged document, a record with a "class" field.
\* StorageError is the exception a conversion raises.
StorageError(what) == [error |-> what]

IsError(v) == "error" \in DOMAIN v

\* The characters in use, in the order of their code points.
Chars ==
  <<SEP, TAB, NL, "-", ".", "0", "1", "2", "3", "4", "5", "6", "7", "8", "9",
    "@", "A", "B", "C", "K", "a", "b", "c", "x", "y", "z", NonAscii>>

Code(c) == CHOOSE i \in 1..Len(Chars) : Chars[i] = c

Codes(s) == [i \in 1..Len(s) |-> Code(s[i])]

\* Lexicographic order of integer sequences (a proper prefix comes first).
RECURSIVE SeqLess(_, _)
SeqLess(a, b) ==
  IF Len(b) = 0 THEN FALSE
  ELSE IF Len(a) = 0 THEN TRUE
  ELSE IF a[1] # b[1] THEN a[1] < b[1]
  ELSE SeqLess(Tail(a), Tail(b))

\* The order sorted() uses on a list of values (Python 2): numbers
\* (bool, int, float, Rating) compare by value and come before everything
\* else; strings and their subclasses compare by content; the other types
\* compare among themselves by their fields and across types by type.
py_sort_key(value) ==
  CASE value.type = "bool" -> <<0, IF value.bool THEN 1 ELSE 0>>
    [] value.type \in {"int", "Rating"} -> <<0, value.int>>
    [] value.type = "float" -> <<0, value.float>>
    [] value.type \in {"str", "Blob", "Text", "Category", "Email"} ->
         <<1>> \o Codes(value.str)
    [] value.type = "GeoPt" -> <<2, value.lat, value.lon>>
    [] value.type = "IM" -> <<3>> \o Codes(value.protocol) \o <<0>> \o Codes(value.address)
    [] value.type = "Key" -> <<4>> \o Codes(__id_for_key(value.key))
    [] value.type = "User" -> <<5>> \o Codes(value.email)

py_less(a, b) == SeqLess(py_sort_key(a), py_sort_key(b))

\* sorted(value)[0] and sorted(value)[-1] of a non-empty list; the sort is
\* stable, so of equal elements the first is the minimum and the last the
\* maximum.
sorted_first(list) ==
  list[CHOOSE i \in 1..Len(list) :
         /\ \A j \in 1..Len(list) : ~py_less(list[j], list[i])
         /\ \A j \in 1..(i - 1) : py_less(list[i], list[j])]

sorted_last(list) ==
  list[CHOOSE i \in 1..Len(list) :
         /\ \A j \in 1..Len(list) : ~py_less(list[i], list[j])
         /\ \A j \in (i + 1)..Len(list) : py_less(list[j], list[i])]

\* str(value) of a unicode string (Python 2): the ASCII encoding, which
\* raises UnicodeEncodeError on any other character.
py_str(s) == [ok |-> \A i \in 1..Len(s) : s[i] # NonAscii, str |-> s]

\* __create_mongo_value_for_value, the branches for non-list values.
mongo_value_for_scalar(value) ==
  CASE value.type = "Rating" -> [class |-> "rating", rating |-> value.int]
    [] value.type = "Category" ->
         IF py_str(value.str).ok
         THEN [class |-> "category", category |-> py_str(value.str).str]
         ELSE StorageError("UnicodeEncodeError")
    [] value.type = "Key" -> [class |-> "key", path |-> __id_for_key(value.key)]
    [] value.type = "User" -> [class |-> "user", email |-> value.email]
    [] value.type = "Text" -> [class |-> "text", string |-> value.str]
    [] value.type = "Blob" -> [binary |-> value.str]
    [] value.type = "IM" ->
         [class |-> "im", protocol |-> value.protocol, address |-> value.address]
    [] value.type = "GeoPt" -> [class |-> "geopt", lat |-> value.lat, lon |-> value.lon]
    [] value.type = "Email" -> [class |-> "email", value |-> value.str]
    [] OTHER -> value

\* __create_mongo_value_for_value: an element's conversion may raise, and
\* sorted_list[0] of an empty list raises IndexError.
__create_mongo_value_for_value(value) ==
  IF value.type = "list"
  THEN IF \E i \in 1..Len(value.list) : IsError(mongo_value_for_scalar(value.list[i]))
       THEN StorageError("UnicodeEncodeError")
       ELSE IF Len(value.list) = 0 THEN StorageError("IndexError")
       ELSE [class |-> "list",
             list |-> [i \in 1..Len(value.list) |-> mongo_value_for_scalar(value.list[i])],
             ascending_sort_key |-> mongo_value_for_scalar(sorted_first(value.list)),
             descending_sort_key |-> mongo_value_for_scalar(sorted_last(value.list))]
  ELSE mongo_value_for_scalar(value)

\* __create_value_for_mongo_value, the branches for tagged documents other
\* than lists.
value_for_mongo_doc(mongo_value) ==
  CASE mongo_value.class = "rating" -> [type |-> "Rating", int |-> mongo_value.rating]
    [] mongo_value.class = "category" -> [type |-> "Category", str |-> mongo_value.category]
    [] mongo_value.class = "key" ->
         LET k == __key_for_id(mongo_value.path)
         IN IF k.ok THEN [type |-> "Key", key |-> k.key] ELSE StorageError("BadKey")
    [] mongo_value.class = "user" -> [type |-> "User", email |-> mongo_value.email]
    [] mongo_value.class = "text" -> [type |-> "Text", str |-> mongo_value.string]
    [] mongo_value.class = "im" ->
         [type |-> "IM", protocol |-> mongo_value.protocol, address |-> mongo_value.address]
    [] mongo_value.class = "geopt" ->
         [type |-> "GeoPt", lat |-> mongo_value.lat, lon |-> mongo_value.lon]
    [] mongo_value.class = "email" -> [type |-> "Email", str |-> mongo_value.value]

value_for_mongo_scalar(mongo_value) ==
  IF "binary" \in DOMAIN mongo_value THEN [type |-> "Blob", str |-> mongo_value.binary]
  ELSE IF "class" \in DOMAIN mongo_value THEN value_for_mongo_doc(mongo_value)
  ELSE mongo_value

__create_value_for_mongo_value(mongo_value) ==
  IF "class" \in DOMAIN mongo_value /\ mongo_value.class = "list"
  THEN LET items == [i \in 1..Len(mongo_value.list) |->
                       value_for_mongo_scalar(mongo_value.list[i])]
       IN IF \E i \in 1..Len(items) : IsError(items[i]) THEN StorageError("BadKey")
          ELSE [type |-> "list", list |-> items]
  ELSE value_for_mongo_scalar(mongo_value)

(* ------------------------------------------------- entities, documents *)
\* An entity is [key |-> path, props |-> [name -> value]]; a document is
\* [_id |-> encoded key, props |-> [name -> stored value]].  A document's
\* "_id" is kept apart from its properties.  A stored value that is an
\* error marks a conversion that raised.
__mongo_document_for_entity(entity) ==
  [_id |-> __id_for_key(entity.key),
   props |-> [k \in DOMAIN entity.props |->
                __create_mongo_value_for_value(entity.props[k])]]

\* [ok |-> TRUE, entity |-> e], or ok = FALSE when a conversion raises.
__entity_for_mongo_document(document) ==
  LET key == __key_for_id(document._id)
      props == [k \in DOMAIN document.props |->
                  __create_value_for_mongo_value(document.props[k])]
  IN IF ~key.ok \/ \E k \in DOMAIN props : IsError(props[k])
     THEN [ok |-> FALSE, entity |-> <<>>]
     ELSE [ok |-> TRUE, entity |-> [key |-> key.key, props |-> props]]

(* --------------------------------------------------- the document store *)
\* self.__db: a set of [coll |-> collection name, doc |-> document], at
\* most one document per collection and "_id".
DocsOf(d, coll) == {r.doc : r \in {x \in d : x.coll = coll}}

\* (mutation: save inserts and never replaces)
save_InsertOnly(d, coll, doc) == d \cup {[coll |-> coll, doc |-> doc]}

\* collection.save(document): an upsert on "_id".
save(d, coll, doc) ==
  {r \in d : ~(r.coll = coll /\ r.doc._id = doc._id)} \cup {[coll |-> coll, doc |-> doc]}

\* collection.find_one({"_id": id}): the set of the documents found (0 or 1).
find_one_by_id(d, coll, id) == {doc \in DocsOf(d, coll) : doc._id = id}

\* (mutation: remove drops every document of the collection)
remove_All(d, coll, id) == {r \in d : r.coll # coll}

\* collection.remove({"_id": id})
remove(d, coll, id) == {r \in d : ~(r.coll = coll /\ r.doc._id = id)}

(* ------------------------------------------------------ stored values *)
\* What the store compares and sorts: numbers together, then strings,
\* documents, binaries and booleans (BSON's order of types); a missing
\* field sorts first.  bson_key(v) is a sequence of integers whose
\* lexicographic order is that order; its head is the type's rank.
Missing == [missing |-> TRUE]

bson_key(v) ==
  IF "missing" \in DOMAIN v THEN <<0>>
  ELSE IF "binary" \in DOMAIN v THEN <<5, Len(v.binary)>> \o Codes(v.binary)
  ELSE IF "class" \in DOMAIN v THEN
    CASE v.class = "rating" -> <<3, 1, v.rating>>
      [] v.class = "category" -> <<3, 2>> \o Codes(v.category)
      [] v.class = "key" -> <<3, 3>> \o Codes(v.path)
      [] v.class = "user" -> <<3, 4>> \o Codes(v.email)
      [] v.class = "text" -> <<3, 5>> \o Codes(v.string)
      [] v.class = "im" -> <<3, 6>> \o Codes(v.protocol) \o <<0>> \o Codes(v.address)
      [] v.class = "geopt" -> <<3, 7, v.lat, v.lon>>
      [] v.class = "email" -> <<3, 8>> \o Codes(v.value)
      [] v.class = "list" -> <<3, 9>>
  ELSE
    CASE v.type = "int" -> <<1, v.int>>
      [] v.type = "float" -> <<1, v.float>>
      [] v.type = "str" -> <<2>> \o Codes(v.str)
      [] v.type = "bool" -> <<6, IF v.bool THEN 1 ELSE 0>>

bson_rank(v) == bson_key(v)[1]

\* Equality as the store sees it: numbers by value, everything else by
\* identity of the stored value.
bson_equal(a, b) ==
  IF bson_rank(a) = 1 /\ bson_rank(b) = 1 THEN bson_key(a) = bson_key(b) ELSE a = b

\* a < b within one type; values of different types are not comparable.
bson_less(a, b) == bson_rank(a) = bson_rank(b) /\ SeqLess(bson_key(a), bson_key(b))

\* The values a document holds at a field path: <<"_id">>, <<p>> or
\* <<p, sub>>.  A path into an array yields the array's elements.
field_values(doc, path) ==
  IF path = <<"_id">> THEN {[type |-> "str", str |-> doc._id]}
  ELSE IF path[1] \notin DOMAIN doc.props THEN {}
  ELSE LET v == doc.props[path[1]]
       IN IF Len(path) = 1 THEN {v}
          ELSE IF "class" \notin DOMAIN v THEN {}
          ELSE CASE v.class = "list" /\ path[2] = "list" ->
                      {v.list[i] : i \in 1..Len(v.list)}
                 [] v.class = "list" /\ path[2] = "ascending_sort_key" ->
                      {v.ascending_sort_key}
                 [] v.class = "list" /\ path[2] = "descending_sort_key" ->
                      {v.descending_sort_key}
                 [] v.class = "category" /\ path[2] = "category" ->
                      {[type |-> "str", str |-> v.category]}
                 [] v.class = "geopt" /\ path[2] = "lat" ->
                      {[type |-> "float", float |-> v.lat]}
                 [] v.class = "geopt" /\ path[2] = "lon" ->
                      {[type |-> "float", float |-> v.lon]}
                 [] OTHER -> {}

\* re.compile("^%s.*$" % id): the encoded key is used as a pattern, so a
\* "." in it stands for any character but a newline; ".*$" takes the rest
\* of the line (a newline only as the very last character).
regex_char_matches(p, c) == IF p = "." THEN c # NL ELSE p = c

regex_matches(pattern, text) ==
  /\ Len(pattern) <= Len(text)
  /\ \A i \in 1..Len(pattern) : regex_char_matches(pattern[i], text[i])
  /\ \A i \in (Len(pattern) + 1)..Len(text) : (text[i] = NL) => (i = Len(text))

\* One clause of a find() specification against one document.
cond_holds(doc, c) ==
  LET vals == field_values(doc, c.key)
  IN CASE c.cond.op = "regex" ->
            \E v \in vals : bson_rank(v) = 2 /\ regex_matches(c.cond.pattern, v.str)
       [] c.cond.op = "==" -> \E v \in vals : bson_equal(v, c.cond.value)
       [] c.cond.op = "$lt" -> \E v \in vals : bson_less(v, c.cond.value)
       [] c.cond.op = "$lte" ->
            \E v \in vals : bson_less(v, c.cond.value) \/
                            (bson_rank(v) = bson_rank(c.cond.value) /\ bson_equal(v, c.cond.value))
       [] c.cond.op = "$gt" -> \E v \in vals : bson_less(c.cond.value, v)
       [] c.cond.op = "$gte" ->
            \E v \in vals : bson_less(c.cond.value, v) \/
                            (bson_rank(v) = bson_rank(c.cond.value) /\ bson_equal(v, c.cond.value))

\* collection.find(spec): the documents of the collection that satisfy
\* every clause.
find(d, coll, spec) ==
  {doc \in DocsOf(d, coll) : \A c \in spec : cond_holds(doc, c)}

\* The value a document is sorted by at a path (a missing field sorts as
\* the least value).
sort_value(doc, path) ==
  LET vals == field_values(doc, path)
  IN IF vals = {} THEN Missing ELSE CHOOSE v \in vals : TRUE

\* doc1 before doc2 under the ordering [(path, direction), ...].
RECURSIVE sorts_before(_, _, _)
sorts_before(order, doc1, doc2) ==
  IF Len(order) = 0 THEN FALSE
  ELSE LET k1 == bson_key(sort_value(doc1, order[1].key))
           k2 == bson_key(sort_value(doc2, order[1].key))
       IN IF k1 = k2 THEN sorts_before(Tail(order), doc1, doc2)
          ELSE IF order[1].direction = "ASCENDING" THEN SeqLess(k1, k2)
          ELSE SeqLess(k2, k1)

RECURSIVE Perms(_)
Perms(S) ==
  IF S = {} THEN {<<>>}
  ELSE UNION {{<<x>> \o p : p \in Perms(S \ {x})} : x \in S}

\* The orders in which a cursor may deliver `docs`: every arrangement the
\* sort allows (documents the sort does not tell apart come in any order,
\* and so do all documents of an unsorted cursor).
cursor_orders(docs, order) ==
  {p \in Perms(docs) :
     \A i \in 1..Len(p) : \A j \in (i + 1)..Len(p) : ~sorts_before(order, p[j], p[i])}

\* cursor.skip(n).limit(m); limit(0) is no limit.
skip_limit(seq, skip, limit) ==
  LET from == IF skip < Len(seq) THEN SubSeq(seq, skip + 1, Len(seq)) ELSE <<>>
  IN IF limit > 0 /\ limit < Len(from) THEN SubSeq(from, 1, limit) ELSE from

(* --------------------------------------------------- query translation *)
\* A query descriptor is [kind, has_ancestor, ancestor, filter_list,
\* order_list, has_offset, offset, has_limit, limit, hint]; a filter is
\* [property, op, value] with op one of "<", "<=", ">", ">=", "==" (the
\* operators table of _Dynamic_RunQuery), an order is [property, direction].
_MAX_QUERY_OFFSET == 1000

_MAX_QUERY_COMPONENTS == 100

\* (mutation: the ascending key whatever the direction)
__special_props_Ascending(value, direction) ==
  CASE value.type = "Category" -> <<"category">>
    [] value.type = "GeoPt" -> <<"lat", "lon">>
    [] value.type = "list" -> <<"ascending_sort_key">>
    [] OTHER -> <<>>

__special_props(value, direction) ==
  CASE value.type = "Category" -> <<"category">>
    [] value.type = "GeoPt" -> <<"lat", "lon">>
    [] value.type = "list" ->
         IF direction = "ASCENDING" THEN <<"ascending_sort_key">>
         ELSE <<"descending_sort_key">>
    [] OTHER -> <<>>

\* (mutation: every value can be ordered by)
__unorderable_Never(value) == value.type \in {}

__unorderable(value) == value.type \in {"Text", "Blob"}

\* One order clause: the (path, direction) pairs it adds, or ok = FALSE
\* where the loop returns None.
translate_one_order(o, prototype) ==
  IF o.property = "__key__"
  THEN [ok |-> TRUE, order |-> <<[key |-> <<"_id">>, direction |-> o.direction]>>]
  ELSE IF o.property \notin DOMAIN prototype.props
          \/ __unorderable(prototype.props[o.property])
  THEN [ok |-> FALSE, order |-> <<>>]
  ELSE LET props == __special_props(prototype.props[o.property], o.direction)
       IN IF Len(props) > 0
          THEN [ok |-> TRUE,
                order |-> [i \in 1..Len(props) |->
                             [key |-> <<o.property, props[i]>>, direction |-> o.direction]]]
          ELSE [ok |-> TRUE,
                order |-> <<[key |-> <<o.property>>, direction |-> o.direction]>>]

RECURSIVE __translate_order_for_mongo(_, _)
__translate_order_for_mongo(order_list, prototype) ==
  IF Len(order_list) = 0 THEN [ok |-> TRUE, order |-> <<>>]
  ELSE LET one == translate_one_order(order_list[1], prototype)
           rest == __translate_order_for_mongo(Tail(order_list), prototype)
       IN IF one.ok /\ rest.ok THEN [ok |-> TRUE, order |-> one.order \o rest.order]
          ELSE [ok |-> FALSE, order |-> <<>>]

__filter_suffix(value) == IF value.type = "list" THEN <<"list">> ELSE <<>>

\* (mutation: "<" taken for "<=")
mongo_operator_Inclusive(operation) ==
  CASE operation = "<" -> "$lte"
    [] operation = "<=" -> "$lte"
    [] operation = ">" -> "$gt"
    [] operation = ">=" -> "$gte"
    [] operation = "==" -> "=="

mongo_operator(operation) ==
  CASE operation = "<" -> "$lt"
    [] operation = "<=" -> "$lte"
    [] operation = ">" -> "$gt"
    [] operation = ">=" -> "$gte"
    [] operation = "==" -> "=="

\* __filter_binding: the (key, condition) pair of one filter.
__filter_binding(key, value, operation, prototype) ==
  LET path == IF key \in DOMAIN prototype.props
              THEN <<key>> \o __filter_suffix(prototype.props[key])
              ELSE <<key>>
  IN IF path = <<"__key__">>
     THEN [key |-> <<"_id">>,
           cond |-> [op |-> mongo_operator(operation),
                     value |-> [type |-> "str", str |-> __id_for_key(value.key)]]]
     ELSE [key |-> path,
           cond |-> [op |-> mongo_operator(operation),
                     value |-> __create_mongo_value_for_value(value)]]

\* The filter loop of _Dynamic_RunQuery: ok = FALSE where a filter's key
\* is already in the specification (the early return with cursor 0).
RECURSIVE add_filters(_, _, _)
add_filters(filter_list, spec, prototype) ==
  IF Len(filter_list) = 0 THEN [ok |-> TRUE, spec |-> spec]
  ELSE LET b == __filter_binding(filter_list[1].property, filter_list[1].value,
                                 filter_list[1].op, prototype)
       IN IF \E c \in spec : c.key = b.key THEN [ok |-> FALSE, spec |-> {}]
          ELSE add_filters(Tail(filter_list), spec \cup {b}, prototype)

ancestor_spec(query) ==
  IF query.has_ancestor
  THEN {[key |-> <<"_id">>,
         cond |-> [op |-> "regex", pattern |-> __id_for_key(query.ancestor)]]}
  ELSE {}

too_big_offset(query) == query.has_offset /\ query.offset > _MAX_QUERY_OFFSET

\* (mutation: the ancestor is not counted)
num_components_NoAncestor(query) == Len(query.filter_list) + Len(query.order_list)

num_components(query) ==
  Len(query.filter_list) + Len(query.order_list) + (IF query.has_ancestor THEN 1 ELSE 0)

bad_request(query) ==
  too_big_offset(query) \/ num_components(query) > _MAX_QUERY_COMPONENTS

NoCursor == [ok |-> FALSE]

\* _Dynamic_RunQuery from the prototype on: the native cursor the query
\* becomes, or NoCursor where the handler answers with cursor 0.  The
\* cursor is lazy: it reads the store when first advanced.  query and
\* prototype (history) are the descriptor and the sample it was made from.
translate(query, prototype) ==
  LET filtered == add_filters(query.filter_list, ancestor_spec(query), prototype)
      order == __translate_order_for_mongo(query.order_list, prototype)
  IN IF ~filtered.ok \/ ~order.ok THEN NoCursor
     ELSE [ok |-> TRUE,
           coll |-> query.kind,
           spec |-> filtered.spec,
           order |-> order.order,
           skip |-> IF query.has_offset THEN query.offset ELSE 0,
           limit |-> IF query.has_limit THEN query.limit ELSE 0,
           executed |-> FALSE,
           rest |-> <<>>,
           query |-> query,
           prototype |-> prototype]

\* (mutation: a missing prototype is taken for an entity without properties)
query_outcomes_NoEmptyCheck(d, query) ==
  IF DocsOf(d, query.kind) = {}
  THEN {translate(query, [key |-> <<>>, props |-> <<>>])}
  ELSE {LET e == __entity_for_mongo_document(p)
        IN IF e.ok THEN translate(query, e.entity) ELSE [ok |-> FALSE, raised |-> TRUE]
        : p \in DocsOf(d, query.kind)}

\* What the handler can make of `query` on store d: one outcome per
\* document find_one() may pick as the prototype; ok = FALSE with
\* raised = TRUE when decoding the prototype raises.
query_outcomes(d, query) ==
  IF DocsOf(d, query.kind) = {} THEN {NoCursor}
  ELSE {LET e == __entity_for_mongo_document(p)
        IN IF e.ok THEN translate(query, e.entity) ELSE [ok |-> FALSE, raised |-> TRUE]
        : p \in DocsOf(d, query.kind)}

\* (mutation: the clone keeps its hint)
clear_hint_Kept(query) == query

clear_hint(query) == [query EXCEPT !.hint = "none"]

record_query(history, query) ==
  LET clone == clear_hint(query)
  IN IF clone \in DOMAIN history THEN [history EXCEPT ![clone] = @ + 1]
     ELSE history @@ (clone :> 1)

RECURSIVE SumOver(_, _)
SumOver(f, S) ==
  IF S = {} THEN 0
  ELSE LET x == CHOOSE y \in S : TRUE IN f[x] + SumOver(f, S \ {x})

(* ------------------------------------------------------------ the stub *)
VARIABLES
  db,             \* self.__db: the documents of every collection
  next_cursor,    \* self.__next_cursor
  queries,        \* self.__queries: handle -> native cursor
  query_history,  \* self.__query_history: hint-free descriptor -> times run
  resp,           \* the last call and its response
  written,        \* (history) the entity last put under each key still stored
  require_indexes \* self.__require_indexes, set by the constructor only

stubVars == <<db, next_cursor, queries, query_history, resp, written, require_indexes>>

VARIABLES kc_pc, kc_key, kc_id, kc_out

keyVars == <<kc_pc, kc_key, kc_id, kc_out>>

VARIABLES vc_pc, vc_val, vc_stored, vc_out

valVars == <<vc_pc, vc_val, vc_stored, vc_out>>

VARIABLES
  cursor_lock,    \* self.__cursor_lock: the thread that holds it, 0 when free
  threads,        \* each thread's place in RunQuery or Count and its locals
  issued          \* (history) the handles read off the counter, in order

threadVars == <<cursor_lock, threads, issued>>

vars == <<stubVars, keyVars, valVars, threadVars>>

(* ------------------------------------------------------ inputs to calls *)
KA == <<"A">>

KB == <<"B">>

IntV(i) == [type |-> "int", int |-> i]

StrV(s) == [type |-> "str", str |-> s]

RandIds == (0 - MaxRand)..MaxRand

ParentKey == <<NameElem(KA, <<"a">>)>>

DotKey == <<NameElem(KA, <<".">>)>>

ChildKey == Append(ParentKey, NameElem(KB, <<"a">>))

NumberedKeys == {Append(ParentKey, IdElem(KA, i)) : i \in RandIds}

\* The keys of Put, Get and Delete requests; a key whose last element has
\* id 0 and no name is an incomplete key to Put.
RequestKeys == {ParentKey, ChildKey} \cup NumberedKeys

\* The keys and entities put where queries are run.
QueryKeys == {ParentKey, DotKey, Append(ParentKey, IdElem(KA, 1))}

\* A reference to an entity of a kind whose name starts with a tab.
TabKindKey == <<NameElem(<<TAB, "1">>, <<"a">>)>>

QueryBodies ==
  {[x |-> IntV(1)],
   [x |-> [type |-> "list", list |-> <<IntV(2), IntV(1)>>],
    t |-> [type |-> "Text", str |-> <<"a">>],
    r |-> [type |-> "Key", key |-> Append(ParentKey, IdElem(KB, 0 - 7))]]}

Bodies == QueryBodies \cup {[r |-> [type |-> "Key", key |-> TabKindKey]]}

BaseQuery(kind) ==
  [kind |-> kind, has_ancestor |-> FALSE, ancestor |-> <<>>,
   filter_list |-> <<>>, order_list |-> <<>>,
   has_offset |-> FALSE, offset |-> 0, has_limit |-> FALSE, limit |-> 0,
   hint |-> "none"]

WithAncestor(q, key) == [q EXCEPT !.has_ancestor = TRUE, !.ancestor = key]

Filter(p, op, v) == [property |-> p, op |-> op, value |-> v]

Order(p, dir) == [property |-> p, direction |-> dir]

QuerySet ==
  {BaseQuery(KA),
   WithAncestor(BaseQuery(KA), ParentKey),
   WithAncestor(BaseQuery(KA), DotKey),
   [WithAncestor(BaseQuery(KB), ParentKey) EXCEPT
      !.filter_list = <<Filter("x", "==", IntV(1))>>,
      !.order_list = <<Order("x", "ASCENDING")>>],
   [BaseQuery(KA) EXCEPT !.filter_list =
      <<Filter("x", ">=", IntV(1)), Filter("x", "<", IntV(2))>>],
   [BaseQuery(KA) EXCEPT !.order_list = <<Order("t", "DESCENDING")>>],
   [BaseQuery(KA) EXCEPT !.has_offset = TRUE, !.offset = 1,
                         !.has_limit = TRUE, !.limit = 1],
   [BaseQuery(KA) EXCEPT !.has_offset = TRUE, !.offset = _MAX_QUERY_OFFSET + 1],
   [BaseQuery(KA) EXCEPT !.filter_list =
      [i \in 1..(_MAX_QUERY_COMPONENTS + 1) |-> Filter("x", "==", IntV(1))]]}

\* The keys, entities and queries put where filters are tried: a key whose
\* name extends ParentKey's, entities whose x is a number, a list or
\* absent, and one long text.
LongKey == <<NameElem(KA, <<"a", "b">>)>>

FilterKeys == {ParentKey, LongKey}

TextV(s) == [type |-> "Text", str |-> s]

ListV(l) == [type |-> "list", list |-> l]

KeyV(k) == [type |-> "Key", key |-> k]

FilterBodies ==
  {[x |-> IntV(1)],
   [x |-> IntV(2)],
   [x |-> ListV(<<IntV(3), IntV(1)>>)],
   [t |-> TextV(<<"a">>)]}

OneFilter(p, op, v) == [BaseQuery(KA) EXCEPT !.filter_list = <<Filter(p, op, v)>>]

\* Every operator on a number, two filters on the key, two filters on one
\* property, one filter given twice, a range over a long text and an
\* ancestor.
FilterQuerySet ==
  {OneFilter("x", "<", IntV(2)), OneFilter("x", "<=", IntV(1)),
   OneFilter("x", ">", IntV(1)), OneFilter("x", ">=", IntV(2)),
   OneFilter("x", "==", IntV(1)), OneFilter("x", "==", IntV(2)),
   OneFilter("__key__", "==", KeyV(ParentKey)),
   OneFilter("__key__", ">", KeyV(ParentKey)),
   [BaseQuery(KA) EXCEPT !.filter_list =
      <<Filter("x", ">", IntV(1)), Filter("x", "<=", IntV(2))>>],
   [BaseQuery(KA) EXCEPT !.filter_list =
      <<Filter("x", "==", IntV(1)), Filter("x", "==", IntV(1))>>],
   OneFilter("t", "<", TextV(<<"b">>)),
   WithAncestor(BaseQuery(KA), ParentKey)}

\* The entities and queries put where orders and the limits of a
\* descriptor are tried: two lists whose least and greatest elements rank
\* them alike, a long text, and an entity with neither; descriptors at and
\* just beyond the offset and component limits.
OrderBodies ==
  {[x |-> ListV(<<IntV(4), IntV(1)>>), y |-> IntV(1), t |-> TextV(<<"a">>)],
   [x |-> ListV(<<IntV(2), IntV(3)>>), y |-> IntV(1)],
   [y |-> IntV(2)]}

Ordered(orders) == [BaseQuery(KA) EXCEPT !.order_list = orders]

OrderQuerySet ==
  {Ordered(<<Order("x", "ASCENDING")>>),
   Ordered(<<Order("x", "DESCENDING")>>),
   Ordered(<<Order("t", "ASCENDING")>>),
   Ordered(<<Order("y", "ASCENDING"), Order("t", "DESCENDING")>>),
   Ordered(<<Order("t", "ASCENDING"), Order("y", "ASCENDING")>>),
   [Ordered(<<Order("t", "ASCENDING")>>) EXCEPT
      !.has_offset = TRUE, !.offset = _MAX_QUERY_OFFSET + 1],
   [Ordered(<<Order("x", "DESCENDING")>>) EXCEPT
      !.filter_list = <<Filter("y", "==", IntV(1))>>],
   [BaseQuery(KA) EXCEPT !.has_offset = TRUE, !.offset = _MAX_QUERY_OFFSET],
   [WithAncestor(BaseQuery(KA), ParentKey) EXCEPT !.filter_list =
      [i \in 1..(_MAX_QUERY_COMPONENTS - 1) |-> Filter("y", "==", IntV(1))]],
   [WithAncestor(BaseQuery(KA), ParentKey) EXCEPT !.filter_list =
      [i \in 1.._MAX_QUERY_COMPONENTS |-> Filter("y", "==", IntV(1))]],
   [BaseQuery(KA) EXCEPT !.filter_list =
      [i \in 1..(_MAX_QUERY_COMPONENTS + 1) |-> Filter("y", "==", IntV(1))]]}

\* The entities and queries put where cursors are advanced: three entities
\* told apart by y, descriptors with orders, an offset, a limit and a limit
\* of zero.
CursorKeys == {ParentKey, LongKey, DotKey}

CursorBody(key) ==
  [y |-> IntV(IF key = LongKey THEN 1 ELSE IF key = ParentKey THEN 2 ELSE 3)]

CursorQuerySet ==
  {[Ordered(<<Order("y", "ASCENDING")>>) EXCEPT
      !.has_offset = TRUE, !.offset = 1, !.has_limit = TRUE, !.limit = 1],
   Ordered(<<Order("y", "DESCENDING")>>),
   [Ordered(<<Order("y", "ASCENDING")>>) EXCEPT !.has_limit = TRUE, !.limit = 2],
   [Ordered(<<Order("y", "ASCENDING")>>) EXCEPT !.has_limit = TRUE, !.limit = 0]}

\* The keys and queries of the runs on the cursor table: one descriptor
\* with and without a hint, one with an order and one beyond the offset
\* limit.
TableKeys == {ParentKey, DotKey}

TableQuerySet ==
  {BaseQuery(KA),
   [BaseQuery(KA) EXCEPT !.hint = "ORDER_FIRST"],
   Ordered(<<Order("y", "ASCENDING")>>),
   [BaseQuery(KA) EXCEPT !.has_offset = TRUE, !.offset = _MAX_QUERY_OFFSET + 1]}

(* -------------------------------------------------------------- actions *)
IsIncomplete(key) == key[Len(key)].id = 0 /\ ~key[Len(key)].has_name

HasDoc(d, key) == find_one_by_id(d, __collection_for_key(key), __id_for_key(key)) # {}

\* Lines 328-331: an incomplete key gets the id random.randint drew.
completed_key(key, rand) ==
  IF IsIncomplete(key) THEN [key EXCEPT ![Len(key)].id = rand] ELSE key

\* _Dynamic_Put, for a request of one entity.  rand is the value
\* random.randint(-sys.maxint-1, sys.maxint) returns, were it called;
\* replaced (history) tells whether save() found a document under the id.
_Dynamic_Put(entity, rand) ==
  LET key == completed_key(entity.key, rand)
      collection == __collection_for_key(key)
      document == __mongo_document_for_entity([key |-> key, props |-> entity.props])
      returned == __key_for_id(document._id)
      raised == \E k \in DOMAIN document.props : IsError(document.props[k])
      done == ~raised /\ returned.ok
  IN /\ db' = IF raised THEN db ELSE save(db, collection, document)
     /\ resp' = [op |-> "Put", entity |-> entity, ok |-> done,
                 key |-> IF done THEN returned.key ELSE <<>>,
                 replaced |-> ~raised /\ find_one_by_id(db, collection, document._id) # {}]
     /\ written' = IF done
                   THEN {w \in written : w.key # returned.key}
                          \cup {[key |-> returned.key, props |-> entity.props]}
                   ELSE written
     /\ UNCHANGED <<next_cursor, queries, query_history>>

\* _Dynamic_Get for one key: [found, entity], or ok = FALSE when decoding
\* the document raises.
get_entity(d, key) ==
  LET found == find_one_by_id(d, __collection_for_key(key), __id_for_key(key))
  IN IF found = {} THEN [ok |-> TRUE, found |-> FALSE, entity |-> <<>>]
     ELSE LET e == __entity_for_mongo_document(CHOOSE doc \in found : TRUE)
          IN [ok |-> e.ok, found |-> e.ok, entity |-> e.entity]

_Dynamic_Get(key) ==
  /\ resp' = [op |-> "Get", key |-> key] @@ get_entity(db, key)
  /\ UNCHANGED <<db, next_cursor, queries, query_history, written>>

\* _Dynamic_Delete for one key; removed (history) tells whether a document
\* went.
_Dynamic_Delete(key) ==
  /\ db' = remove(db, __collection_for_key(key), __id_for_key(key))
  /\ resp' = [op |-> "Delete", key |-> key, ok |-> TRUE, removed |-> HasDoc(db, key)]
  /\ written' = {w \in written : __id_for_key(w.key) # __id_for_key(key)}
  /\ UNCHANGED <<next_cursor, queries, query_history>>

QueriesRun == SumOver(query_history, DOMAIN query_history)

\* The bounds of a run: a Put may add a document while fewer than `max`
\* are stored, and a query may run while fewer than `max` have.
RoomFor(key, rand, max) == Cardinality(db) < max \/ HasDoc(db, completed_key(key, rand))

WithinBudget(query, max) == bad_request(query) \/ QueriesRun < max

_Dynamic_RunQuery(query) ==
  IF bad_request(query)
  THEN /\ resp' = [op |-> "RunQuery", query |-> query, error |-> "BAD_REQUEST",
                   cursor |-> 0, more_results |-> FALSE]
       /\ UNCHANGED <<db, next_cursor, queries, query_history, written>>
  ELSE /\ query_history' = record_query(query_history, query)
       /\ \E c \in query_outcomes(db, query) :
            IF c.ok
            THEN /\ next_cursor' = next_cursor + 1
                 /\ queries' = queries @@ (next_cursor :> c)
                 /\ resp' = [op |-> "RunQuery", query |-> query, error |-> "",
                             cursor |-> next_cursor, more_results |-> TRUE]
            ELSE /\ resp' = [op |-> "RunQuery", query |-> query,
                             error |-> IF "raised" \in DOMAIN c THEN "EXCEPTION" ELSE "",
                             cursor |-> 0, more_results |-> FALSE]
                 /\ UNCHANGED <<next_cursor, queries>>
       /\ UNCHANGED <<db, written>>

Min(a, b) == IF a < b THEN a ELSE b

\* (mutation: more results are feigned, as RunQuery feigns them)
more_after_Feigned(n, count) == TRUE

\* Lines 577-583: the loop over range(count) ends with more_results True
\* unless cursor.next() raised StopIteration; n documents were there.
more_after(n, count) == n = count

\* (mutation: an unknown handle is answered as handle 0 is)
cursor_not_found_Quiet(cursor, count) ==
  [op |-> "Next", cursor |-> cursor, count |-> count, error |-> "",
   result |-> <<>>, more_results |-> FALSE, ran |-> FALSE, matched |-> <<>>]

\* Lines 570-574: the KeyError of self.__queries[cursor] becomes the
\* application error BAD_REQUEST, 'Cursor %d not found'.
cursor_not_found(cursor, count) ==
  [op |-> "Next", cursor |-> cursor, count |-> count, error |-> "BAD_REQUEST",
   result |-> <<>>, more_results |-> FALSE, ran |-> FALSE, matched |-> <<>>]

\* _Dynamic_Next.  The native cursor runs its query against the store the
\* first time a document is asked of it; matched (history) is what it
\* found then.
_Dynamic_Next(cursor, count) ==
  IF cursor = 0
  THEN /\ resp' = [op |-> "Next", cursor |-> cursor, count |-> count, error |-> "",
                   result |-> <<>>, more_results |-> FALSE, ran |-> FALSE, matched |-> <<>>]
       /\ UNCHANGED <<db, next_cursor, queries, query_history, written>>
  ELSE IF cursor \notin DOMAIN queries
  THEN /\ resp' = cursor_not_found(cursor, count)
       /\ UNCHANGED <<db, next_cursor, queries, query_history, written>>
  ELSE LET c == queries[cursor]
           runs == count > 0 /\ ~c.executed
       IN \E all \in (IF runs THEN cursor_orders(find(db, c.coll, c.spec), c.order)
                      ELSE {c.rest}) :
            LET avail == IF runs THEN skip_limit(all, c.skip, c.limit) ELSE all
                n == Min(count, Len(avail))
                docs == SubSeq(avail, 1, n)
                ents == [i \in 1..n |-> __entity_for_mongo_document(docs[i])]
                good == \A i \in 1..n : ents[i].ok
            IN /\ queries' = [queries EXCEPT ![cursor] =
                                [c EXCEPT !.executed = c.executed \/ runs,
                                          !.rest = SubSeq(avail, n + 1, Len(avail))]]
               /\ resp' = [op |-> "Next", cursor |-> cursor, count |-> count,
                           error |-> IF good THEN "" ELSE "EXCEPTION",
                           result |-> IF good THEN [i \in 1..n |-> ents[i].entity] ELSE <<>>,
                           more_results |-> good /\ more_after(n, count),
                           ran |-> runs,
                           matched |-> IF runs THEN avail ELSE <<>>]
               /\ UNCHANGED <<db, next_cursor, query_history, written>>

\* _Dynamic_Count: RunQuery, then cursor.count() (the count of the
\* specification, skip and limit aside) and the eviction of the cursor.
_Dynamic_Count(query) ==
  IF bad_request(query)
  THEN /\ resp' = [op |-> "Count", query |-> query, error |-> "BAD_REQUEST", value |-> 0]
       /\ UNCHANGED <<db, next_cursor, queries, query_history, written>>
  ELSE /\ query_history' = record_query(query_history, query)
       /\ \E c \in query_outcomes(db, query) :
            IF c.ok
            THEN LET count == Cardinality(find(db, c.coll, c.spec))
                 IN /\ next_cursor' = next_cursor + 1
                    /\ resp' = [op |-> "Count", query |-> query, error |-> "",
                                value |-> IF query.has_limit /\ count > query.limit
                                          THEN query.limit ELSE count]
            ELSE /\ resp' = [op |-> "Count", query |-> query,
                             error |-> IF "raised" \in DOMAIN c THEN "EXCEPTION" ELSE "",
                             value |-> 0]
                 /\ UNCHANGED next_cursor
       /\ UNCHANGED <<db, queries, written>>

\* (mutation: the transaction handle is drawn from the cursor counter)
_Dynamic_BeginTransaction_Allocating ==
  /\ resp' = [op |-> "BeginTransaction", handle |-> next_cursor]
  /\ next_cursor' = next_cursor + 1
  /\ UNCHANGED <<db, queries, query_history, written>>

_Dynamic_BeginTransaction ==
  /\ resp' = [op |-> "BeginTransaction", handle |-> 0]
  /\ UNCHANGED <<db, next_cursor, queries, query_history, written>>

_Dynamic_Commit ==
  /\ resp' = [op |-> "Commit"]
  /\ UNCHANGED <<db, next_cursor, queries, query_history, written>>

_Dynamic_Rollback ==
  /\ resp' = [op |-> "Rollback"]
  /\ UNCHANGED <<db, next_cursor, queries, query_history, written>>

\* __init__ with require_indexes given.
Constructed(enforce) ==
  /\ db = {}
  /\ next_cursor = 1
  /\ queries = <<>>
  /\ query_history = <<>>
  /\ resp = [op |-> "none"]
  /\ written = {}
  /\ require_indexes = enforce

\* require_indexes=False is the constructor's default.
StubInit == Constructed(FALSE)

Put ==
  \E key \in RequestKeys, body \in Bodies :
    \E rand \in (IF IsIncomplete(key) THEN RandIds ELSE {0}) :
      RoomFor(key, rand, MaxDocs) /\ _Dynamic_Put([key |-> key, props |-> body], rand)

PutForQuery ==
  \E key \in QueryKeys, body \in QueryBodies :
    RoomFor(key, 0, MaxDocs) /\ _Dynamic_Put([key |-> key, props |-> body], 0)

Get == \E key \in RequestKeys : _Dynamic_Get(key)

Delete == \E key \in RequestKeys : _Dynamic_Delete(key)

RunQuery ==
  \E query \in QuerySet : WithinBudget(query, MaxQueries) /\ _Dynamic_RunQuery(query)

NextResults ==
  \E cursor \in 0..MaxQueries, count \in 0..MaxCount : _Dynamic_Next(cursor, count)

Count ==
  \E query \in QuerySet : WithinBudget(query, MaxQueries) /\ _Dynamic_Count(query)

\* Here and in PutForOrder the entities are put before the first query.
PutForFilter ==
  /\ QueriesRun = 0
  /\ \E key \in FilterKeys, body \in FilterBodies :
       RoomFor(key, 0, MaxDocs) /\ _Dynamic_Put([key |-> key, props |-> body], 0)

RunFilterQuery ==
  \E query \in FilterQuerySet : WithinBudget(query, MaxQueries) /\ _Dynamic_RunQuery(query)

\* Counts are asked of the queries on x = 1, of those with two filters and
\* of the one with an ancestor.
CountFiltered ==
  \E query \in {q \in FilterQuerySet :
                  \/ Len(q.filter_list) = 2
                  \/ q = OneFilter("x", "==", IntV(1))
                  \/ q.has_ancestor} :
    WithinBudget(query, MaxQueries) /\ _Dynamic_Count(query)

PutForOrder ==
  /\ QueriesRun = 0
  /\ \E key \in FilterKeys, body \in OrderBodies :
       RoomFor(key, 0, MaxDocs) /\ _Dynamic_Put([key |-> key, props |-> body], 0)

RunOrderQuery ==
  \E query \in OrderQuerySet : WithinBudget(query, MaxQueries) /\ _Dynamic_RunQuery(query)

CountOrdered ==
  \E query \in OrderQuerySet : WithinBudget(query, MaxQueries) /\ _Dynamic_Count(query)

PutForCursor ==
  /\ QueriesRun = 0
  /\ \E key \in CursorKeys :
       /\ RoomFor(key, 0, MaxCursorDocs)
       /\ _Dynamic_Put([key |-> key, props |-> CursorBody(key)], 0)

RunCursorQuery ==
  \E query \in CursorQuerySet :
    WithinBudget(query, MaxCursorQueries) /\ _Dynamic_RunQuery(query)

CountForCursor ==
  \E query \in CursorQuerySet :
    WithinBudget(query, MaxCursorQueries) /\ _Dynamic_Count(query)

\* Next, on handle 0, on the handles issued and on one never issued.
NextOfCursor ==
  \E cursor \in 0..(MaxCursorQueries + 1), count \in 0..MaxCount :
    _Dynamic_Next(cursor, count)

PutInTable ==
  \E key \in TableKeys :
    /\ RoomFor(key, 0, MaxTableDocs)
    /\ _Dynamic_Put([key |-> key, props |-> CursorBody(key)], 0)

GetInTable == \E key \in TableKeys : _Dynamic_Get(key)

DeleteInTable == \E key \in TableKeys : _Dynamic_Delete(key)

RunTableQuery ==
  \E query \in TableQuerySet :
    WithinBudget(query, MaxTableQueries) /\ _Dynamic_RunQuery(query)

CountInTable ==
  \E query \in TableQuerySet :
    WithinBudget(query, MaxTableQueries) /\ _Dynamic_Count(query)

NextInTable ==
  \E cursor \in 0..MaxTableQueries : _Dynamic_Next(cursor, 1)

(* --------------------------------------------------- the codecs, as runs *)
KindStrs == {<<"A">>, <<"B", "c">>, <<TAB, "1">>}

NameStrs == {<<"a">>, <<"1", "-">>, <<TAB, "7">>, <<"a", SEP, "B">>}

IdSet == {i * IdStep : i \in (0 - MaxId)..MaxId}

ElemSet ==
  {NameElem(k, n) : k \in KindStrs, n \in NameStrs}
    \cup {IdElem(k, i) : k \in KindStrs, i \in IdSet}

RECURSIVE PathsOfLen(_, _)
PathsOfLen(E, n) ==
  IF n = 0 THEN {<<>>}
  ELSE {Append(p, e) : p \in PathsOfLen(E, n - 1), e \in E}

PathsUpTo(E, n) == UNION {PathsOfLen(E, m) : m \in 1..n}

KeyInputs == PathsUpTo(ElemSet, MaxPathLen)

NoKey == [ok |-> FALSE, key |-> <<>>]

KeyInit ==
  /\ kc_pc = "start"
  /\ kc_key \in KeyInputs
  /\ kc_id = <<>>
  /\ kc_out = NoKey

KeyIdle ==
  /\ kc_pc = "off"
  /\ kc_key = <<>>
  /\ kc_id = <<>>
  /\ kc_out = NoKey

KeyEncode ==
  /\ kc_pc = "start"
  /\ kc_id' = __id_for_key(kc_key)
  /\ kc_pc' = "encoded"
  /\ UNCHANGED <<kc_key, kc_out>>

KeyDecode ==
  /\ kc_pc = "encoded"
  /\ kc_out' = __key_for_id(kc_id)
  /\ kc_pc' = "decoded"
  /\ UNCHANGED <<kc_key, kc_id>>

StrVals == {<<"a">>, <<"b", "a">>, <<"a", NonAscii>>}

RefKeys == KeyInputs

ScalarVals ==
  {[type |-> "bool", bool |-> b] : b \in BOOLEAN}
    \cup {IntV(i) : i \in IdSet}
    \cup {[type |-> "float", float |-> i] : i \in {0, 1}}
    \cup {[type |-> t, str |-> s] :
            t \in {"str", "Blob", "Text", "Category", "Email"}, s \in StrVals}
    \cup {[type |-> "Rating", int |-> i] : i \in {0, 99}}
    \cup {[type |-> "Key", key |-> k] : k \in RefKeys}
    \cup {[type |-> "GeoPt", lat |-> 40, lon |-> 0 - 73]}
    \cup {[type |-> "User", email |-> <<"a", "@", "b">>]}
    \cup {[type |-> "IM", protocol |-> <<"x">>, address |-> <<"a">>]}

ListElems ==
  {[type |-> "bool", bool |-> TRUE], IntV(IdStep), IntV(0 - IdStep),
   [type |-> "float", float |-> 1], StrV(<<"a">>),
   [type |-> "Text", str |-> <<"a">>], [type |-> "Blob", str |-> <<"a">>],
   [type |-> "Rating", int |-> 99],
   [type |-> "Key", key |-> Append(ParentKey, IdElem(KB, 0 - IdStep))],
   [type |-> "GeoPt", lat |-> 40, lon |-> 0 - 73]}

RECURSIVE SeqsOfLen(_, _)
SeqsOfLen(E, n) ==
  IF n = 0 THEN {<<>>}
  ELSE {Append(p, e) : p \in SeqsOfLen(E, n - 1), e \in E}

ListVals ==
  {[type |-> "list", list |-> l] : l \in UNION {SeqsOfLen(ListElems, n) : n \in 0..MaxListLen}}

NoValue == [none |-> TRUE]

ValInit ==
  /\ vc_pc = "start"
  /\ vc_val \in ScalarVals \cup ListVals
  /\ vc_stored = NoValue
  /\ vc_out = NoValue

ValIdle ==
  /\ vc_pc = "off"
  /\ vc_val = NoValue
  /\ vc_stored = NoValue
  /\ vc_out = NoValue

ValToStorage ==
  /\ vc_pc = "start"
  /\ vc_stored' = __create_mongo_value_for_value(vc_val)
  /\ vc_pc' = IF IsError(vc_stored') THEN "raised" ELSE "stored"
  /\ UNCHANGED <<vc_val, vc_out>>

ValFromStorage ==
  /\ vc_pc = "stored"
  /\ vc_out' = __create_value_for_mongo_value(vc_stored)
  /\ vc_pc' = "decoded"
  /\ UNCHANGED <<vc_val, vc_stored>>

(* ------------------------------------ RunQuery and Count, statement-wise *)
\* The handlers as threads run them: one step per statement that reads or
\* writes the store, the lock, the counter or the cursor table.  A thread
\* is [pc, op, cursor, cursor_index]: its next statement, the call it is
\* in, the native cursor it built and its local cursor_index.
Threads == 1..MaxThreads

IdleThread == [pc |-> "idle", op |-> "none", cursor |-> NoCursor, cursor_index |-> 0]

\* __init__, lines 168-170: the lock is free.
ThreadsIdle ==
  /\ cursor_lock = 0
  /\ threads = [t \in Threads |-> IdleThread]
  /\ issued = <<>>

\* A thread enters _Dynamic_RunQuery, of itself or from _Dynamic_Count
\* (line 587), with the descriptor of a kind and nothing else, and counts
\* it in the history (lines 486-494, taken as one step).
Call(t, op) ==
  /\ threads[t].pc = "idle"
  /\ WithinBudget(BaseQuery(KA), MaxHandles)
  /\ query_history' = record_query(query_history, BaseQuery(KA))
  /\ threads' = [threads EXCEPT ![t] = [IdleThread EXCEPT !.pc = "find_one", !.op = op]]
  /\ UNCHANGED <<db, next_cursor, queries, resp, written, require_indexes,
                 cursor_lock, issued>>

\* Lines 499-552: find_one() reads the store; without a prototype the
\* call answers handle 0, with one it builds the native cursor.
FindOne(t) ==
  /\ threads[t].pc = "find_one"
  /\ \E c \in query_outcomes(db, BaseQuery(KA)) :
       IF c.ok
       THEN /\ threads' = [threads EXCEPT ![t].pc = "acquire", ![t].cursor = c]
            /\ UNCHANGED resp
       ELSE /\ threads' = [threads EXCEPT ![t] = IdleThread]
            /\ resp' = [op |-> threads[t].op, thread |-> t, cursor |-> 0]
  /\ UNCHANGED <<db, next_cursor, queries, query_history, written, require_indexes,
                 cursor_lock, issued>>

\* (mutation: acquire() never waits)
can_acquire_Always(lock) == TRUE

\* Line 554: acquire() returns once the lock is free.
can_acquire(lock) == lock = 0

Acquire(t) ==
  /\ threads[t].pc = "acquire"
  /\ can_acquire(cursor_lock)
  /\ cursor_lock' = t
  /\ threads' = [threads EXCEPT ![t].pc = "take"]
  /\ UNCHANGED <<stubVars, issued>>

\* Line 555: cursor_index = self.__next_cursor.
TakeIndex(t) ==
  /\ threads[t].pc = "take"
  /\ threads' = [threads EXCEPT ![t].pc = "bump", ![t].cursor_index = next_cursor]
  /\ issued' = Append(issued, next_cursor)
  /\ UNCHANGED <<stubVars, cursor_lock>>

\* Line 556: self.__next_cursor += 1.
Increment(t) ==
  /\ threads[t].pc = "bump"
  /\ next_cursor' = next_cursor + 1
  /\ threads' = [threads EXCEPT ![t].pc = "release"]
  /\ UNCHANGED <<db, queries, query_history, resp, written, require_indexes,
                 cursor_lock, issued>>

\* Line 557: release().
Release(t) ==
  /\ threads[t].pc = "release"
  /\ cursor_lock' = 0
  /\ threads' = [threads EXCEPT ![t].pc = "insert"]
  /\ UNCHANGED <<stubVars, issued>>

\* Lines 558-561: self.__queries[cursor_index] = cursor; RunQuery returns
\* the handle, Count goes on with it.
Insert(t) ==
  /\ threads[t].pc = "insert"
  /\ queries' = [h \in DOMAIN queries \cup {threads[t].cursor_index} |->
                   IF h = threads[t].cursor_index THEN threads[t].cursor ELSE queries[h]]
  /\ IF threads[t].op = "Count"
     THEN /\ threads' = [threads EXCEPT ![t].pc = "count"]
          /\ UNCHANGED resp
     ELSE /\ threads' = [threads EXCEPT ![t] = IdleThread]
          /\ resp' = [op |-> "RunQuery", thread |-> t, cursor |-> threads[t].cursor_index]
  /\ UNCHANGED <<db, next_cursor, query_history, written, require_indexes,
                 cursor_lock, issued>>

\* Lines 592-593: the cursor is looked up and cursor.count() reads the
\* store.
CountCursor(t) ==
  /\ threads[t].pc = "count"
  /\ threads[t].cursor_index \in DOMAIN queries
  /\ threads' = [threads EXCEPT ![t].pc = "evict"]
  /\ UNCHANGED <<stubVars, cursor_lock, issued>>

\* Lines 594-597: del self.__queries[cursor_number].
Evict(t) ==
  /\ threads[t].pc = "evict"
  /\ queries' = [h \in DOMAIN queries \ {threads[t].cursor_index} |-> queries[h]]
  /\ threads' = [threads EXCEPT ![t] = IdleThread]
  /\ resp' = [op |-> "Count", thread |-> t, cursor |-> threads[t].cursor_index]
  /\ UNCHANGED <<db, next_cursor, query_history, written, require_indexes,
                 cursor_lock, issued>>

\* The one entity stored while the threads run.
PutForThreads ==
  /\ db = {}
  /\ _Dynamic_Put([key |-> ParentKey, props |-> CursorBody(ParentKey)], 0)

(* ------------------------------------------------------- specifications *)
Init == StubInit /\ KeyIdle /\ ValIdle /\ ThreadsIdle

\* Put, Get, Delete and the transaction calls.
NextStore ==
  \/ Put /\ UNCHANGED <<keyVars, valVars, threadVars, require_indexes>>
  \/ Get /\ UNCHANGED <<keyVars, valVars, threadVars, require_indexes>>
  \/ Delete /\ UNCHANGED <<keyVars, valVars, threadVars, require_indexes>>
  \/ _Dynamic_BeginTransaction /\ UNCHANGED <<keyVars, valVars, threadVars, require_indexes>>
  \/ _Dynamic_Commit /\ UNCHANGED <<keyVars, valVars, threadVars, require_indexes>>
  \/ _Dynamic_Rollback /\ UNCHANGED <<keyVars, valVars, threadVars, require_indexes>>

SpecStore == Init /\ [][NextStore]_vars

\* Queries over what Put stored.
NextQuery ==
  \/ PutForQuery /\ UNCHANGED <<keyVars, valVars, threadVars, require_indexes>>
  \/ RunQuery /\ UNCHANGED <<keyVars, valVars, threadVars, require_indexes>>
  \/ NextResults /\ UNCHANGED <<keyVars, valVars, threadVars, require_indexes>>
  \/ Count /\ UNCHANGED <<keyVars, valVars, threadVars, require_indexes>>

SpecQuery == Init /\ [][NextQuery]_vars

\* Filters and ancestors over entities of one kind.
NextFilter ==
  \/ PutForFilter /\ UNCHANGED <<keyVars, valVars, threadVars, require_indexes>>
  \/ RunFilterQuery /\ UNCHANGED <<keyVars, valVars, threadVars, require_indexes>>
  \/ NextResults /\ UNCHANGED <<keyVars, valVars, threadVars, require_indexes>>
  \/ CountFiltered /\ UNCHANGED <<keyVars, valVars, threadVars, require_indexes>>

SpecFilter == Init /\ [][NextFilter]_vars

\* Orders, on a stub constructed with or without index enforcement.
InitOrder ==
  (\E enforce \in BOOLEAN : Constructed(enforce)) /\ KeyIdle /\ ValIdle /\ ThreadsIdle

NextOrder ==
  \/ PutForOrder /\ UNCHANGED <<keyVars, valVars, threadVars, require_indexes>>
  \/ RunOrderQuery /\ UNCHANGED <<keyVars, valVars, threadVars, require_indexes>>
  \/ NextResults /\ UNCHANGED <<keyVars, valVars, threadVars, require_indexes>>
  \/ CountOrdered /\ UNCHANGED <<keyVars, valVars, threadVars, require_indexes>>

SpecOrder == InitOrder /\ [][NextOrder]_vars

\* Cursors advanced to their end and past it.
NextCursor ==
  \/ PutForCursor /\ UNCHANGED <<keyVars, valVars, threadVars, require_indexes>>
  \/ RunCursorQuery /\ UNCHANGED <<keyVars, valVars, threadVars, require_indexes>>
  \/ NextOfCursor /\ UNCHANGED <<keyVars, valVars, threadVars, require_indexes>>
  \/ CountForCursor /\ UNCHANGED <<keyVars, valVars, threadVars, require_indexes>>

SpecCursor == Init /\ [][NextCursor]_vars

\* Every call, where cursors are registered and evicted.
NextTable ==
  \/ PutInTable /\ UNCHANGED <<keyVars, valVars, threadVars, require_indexes>>
  \/ GetInTable /\ UNCHANGED <<keyVars, valVars, threadVars, require_indexes>>
  \/ DeleteInTable /\ UNCHANGED <<keyVars, valVars, threadVars, require_indexes>>
  \/ RunTableQuery /\ UNCHANGED <<keyVars, valVars, threadVars, require_indexes>>
  \/ NextInTable /\ UNCHANGED <<keyVars, valVars, threadVars, require_indexes>>
  \/ CountInTable /\ UNCHANGED <<keyVars, valVars, threadVars, require_indexes>>
  \/ _Dynamic_BeginTransaction /\ UNCHANGED <<keyVars, valVars, threadVars, require_indexes>>
  \/ _Dynamic_Commit /\ UNCHANGED <<keyVars, valVars, threadVars, require_indexes>>
  \/ _Dynamic_Rollback /\ UNCHANGED <<keyVars, valVars, threadVars, require_indexes>>

SpecTable == Init /\ [][NextTable]_vars

\* RunQuery and Count run by threads, statement by statement.
NextThreads ==
  \/ PutForThreads /\ UNCHANGED <<keyVars, valVars, threadVars, require_indexes>>
  \/ \E t \in Threads : \E op \in {"RunQuery", "Count"} :
       Call(t, op) /\ UNCHANGED <<keyVars, valVars>>
  \/ \E t \in Threads : FindOne(t) /\ UNCHANGED <<keyVars, valVars>>
  \/ \E t \in Threads : Acquire(t) /\ UNCHANGED <<keyVars, valVars>>
  \/ \E t \in Threads : TakeIndex(t) /\ UNCHANGED <<keyVars, valVars>>
  \/ \E t \in Threads : Increment(t) /\ UNCHANGED <<keyVars, valVars>>
  \/ \E t \in Threads : Release(t) /\ UNCHANGED <<keyVars, valVars>>
  \/ \E t \in Threads : Insert(t) /\ UNCHANGED <<keyVars, valVars>>
  \/ \E t \in Threads : CountCursor(t) /\ UNCHANGED <<keyVars, valVars>>
  \/ \E t \in Threads : Evict(t) /\ UNCHANGED <<keyVars, valVars>>

SpecThreads == Init /\ [][NextThreads]_vars

InitKey == KeyInit /\ StubInit /\ ValIdle /\ ThreadsIdle

NextKey ==
  \/ KeyEncode /\ UNCHANGED <<stubVars, valVars, threadVars>>
  \/ KeyDecode /\ UNCHANGED <<stubVars, valVars, threadVars>>

SpecKey == InitKey /\ [][NextKey]_vars

InitValue == ValInit /\ StubInit /\ KeyIdle /\ ThreadsIdle

NextValue ==
  \/ ValToStorage /\ UNCHANGED <<stubVars, keyVars, threadVars>>
  \/ ValFromStorage /\ UNCHANGED <<stubVars, keyVars, threadVars>>

SpecValue == InitValue /\ [][NextValue]_vars

(* --------------------------------------------------------------- claims *)
StartsWith(s, p) == Len(p) <= Len(s) /\ SubSeq(s, 1, Len(p)) = p

IsProperPrefix(p, s) == Len(p) < Len(s) /\ SubSeq(s, 1, Len(p)) = p

KindCount(d, kind) == Cardinality(DocsOf(d, kind))

HasSep(s) == \E i \in 1..Len(s) : s[i] = SEP

\* A well-formed key: no kind and no name holds the separator, and no name
\* starts with the numeric-id marker.
WellFormed(key) ==
  \A i \in 1..Len(key) :
    /\ ~HasSep(key[i].type)
    /\ ~HasSep(key[i].name)
    /\ (key[i].has_name => (Len(key[i].name) > 0 /\ key[i].name[1] # TAB))

\* C1: Decode(Encode(k)) = k for every well-formed key k: as many path
\* elements, the same kinds, names back as names and numeric ids back as
\* the same signed integers.
C1_RoundTrip ==
  (kc_pc = "decoded" /\ WellFormed(kc_key))
    => (kc_out.ok /\ kc_out.key = kc_key)

\* C2: the encoding of every ancestor of a key (a non-empty proper prefix
\* of its path) is a proper prefix of the key's encoding.
C2_AncestorPrefix ==
  (kc_pc # "start")
    => \A n \in 1..(Len(kc_key) - 1) :
         IsProperPrefix(__id_for_key(SubSeq(kc_key, 1, n)), kc_id)

C2_Witness ==
  /\ kc_pc = "encoded"
  /\ Len(kc_key) >= 2
  /\ ~kc_key[1].has_name /\ kc_key[1].id < 0
  /\ IsProperPrefix(__id_for_key(SubSeq(kc_key, 1, 1)), kc_id)

\* C3: a non-list value of a supported type is stored without error and
\* comes back equal and of the same type.
C3_ScalarRoundTrip ==
  (vc_val.type # "list")
    => /\ vc_pc # "raised"
       /\ (vc_pc = "decoded" => vc_out = vc_val)

\* C4: every list of supported elements, the empty list included, is
\* stored without error and comes back as the same list.
C4_ListRoundTrip ==
  (vc_val.type = "list")
    => /\ vc_pc # "raised"
       /\ (vc_pc = "decoded" => vc_out = vc_val)

\* C5: a Get of a key that Put returned, with no Put or Delete of that key
\* since, finds an entity with that key and exactly the properties put.
C5_PutThenGet ==
  (resp.op = "Get")
    => \A w \in written :
         (w.key = resp.key)
           => /\ resp.ok /\ resp.found
              /\ resp.entity = [key |-> resp.key, props |-> w.props]

\* C6: the key Put returns for an entity with an incomplete key has a
\* nonzero numeric id on its last element and is otherwise the key given.
C6_AssignedIdNonzero ==
  (resp.op = "Put" /\ resp.ok /\ IsIncomplete(resp.entity.key))
    => LET n == Len(resp.entity.key)
       IN /\ Len(resp.key) = n
          /\ ~resp.key[n].has_name
          /\ resp.key[n].id # 0
          /\ resp.key[n].type = resp.entity.key[n].type
          /\ SubSeq(resp.key, 1, n - 1) = SubSeq(resp.entity.key, 1, n - 1)

DocKey(r) == __key_for_id(r.doc._id)

C7_Stored ==
  /\ \A r1 \in db : \A r2 \in db : (DocKey(r1) = DocKey(r2)) => (r1 = r2)
  /\ \A r \in db : DocKey(r).ok /\ r.coll = DocKey(r).key[Len(DocKey(r).key)].type

C7_PutStep ==
  (resp'.op = "Put" /\ resp'.ok)
    => LET k == resp'.key
           kind == k[Len(k)].type
       IN /\ HasDoc(db', k)
          /\ \A other \in {KA, KB} \ {kind} : KindCount(db', other) = KindCount(db, other)
          /\ KindCount(db', kind) =
               (IF HasDoc(db, k) THEN KindCount(db, kind) ELSE KindCount(db, kind) + 1)

\* C7: the store holds at most one document per key path, each in the
\* collection of its key's last kind; a Put to a stored key leaves every
\* kind's count as it was and a Put to any other key (the same name under
\* another parent included) adds one entity to its kind.
C7_OnePerKey == [](C7_Stored) /\ [][C7_PutStep]_vars

C7_Witness ==
  /\ resp.op = "Put"
  /\ resp.key = ChildKey
  /\ HasDoc(db, ParentKey)
  /\ HasDoc(db, ChildKey)
  /\ Cardinality(db) = 2

C8_Deleted ==
  (resp.op = "Delete") => (resp.ok /\ ~get_entity(db, resp.key).found)

C8_DeleteStep ==
  (resp'.op = "Delete")
    => /\ db' \subseteq db
       /\ \A r \in db : (DocKey(r).key # resp'.key) => (r \in db')
       /\ (~HasDoc(db, resp'.key)) => (db' = db)

\* C8: after Delete(k) a Get of k finds nothing, every entity under another
\* key is stored as before, and a Delete of a key that is not stored
\* succeeds and changes nothing.
C8_Delete == [](C8_Deleted) /\ [][C8_DeleteStep]_vars

C8_Witness ==
  /\ resp.op = "Delete"
  /\ resp.removed
  /\ db # {}

WithinLimits(q) ==
  /\ ~(q.has_offset /\ q.offset > _MAX_QUERY_OFFSET)
  /\ Len(q.filter_list) + Len(q.order_list) + (IF q.has_ancestor THEN 1 ELSE 0)
       <= _MAX_QUERY_COMPONENTS

EmptyKind(q) == DocsOf(db, q.kind) = {}

\* C9 as claimed: RunQuery on a kind without entities answers cursor 0,
\* no more results and no error, whatever the descriptor carries.
C9_EmptyKindAsClaimed ==
  (resp.op = "RunQuery" /\ EmptyKind(resp.query))
    => (resp.error = "" /\ resp.cursor = 0 /\ ~resp.more_results)

\* C9, amended: RunQuery on a kind without entities answers cursor 0, no
\* more results and no error whatever filters, orders or ancestor it
\* carries, provided the descriptor is within the offset and component
\* limits; Next on handle 0 returns no entities, and Count of such a
\* descriptor is 0.
C9_EmptyKind ==
  /\ (resp.op = "RunQuery" /\ EmptyKind(resp.query) /\ WithinLimits(resp.query))
       => (resp.error = "" /\ resp.cursor = 0 /\ ~resp.more_results)
  /\ (resp.op = "Next" /\ resp.cursor = 0)
       => (resp.error = "" /\ resp.result = <<>> /\ ~resp.more_results)
  /\ (resp.op = "Count" /\ EmptyKind(resp.query) /\ WithinLimits(resp.query))
       => (resp.error = "" /\ resp.value = 0)

C9_Witness ==
  /\ resp.op = "RunQuery"
  /\ EmptyKind(resp.query)
  /\ DocsOf(db, KA) # {}
  /\ resp.query.kind = KB
  /\ resp.query.has_ancestor
  /\ Len(resp.query.filter_list) > 0
  /\ Len(resp.query.order_list) > 0
  /\ resp.cursor = 0

IsAncestorCursor(c) ==
  /\ c.skip = 0
  /\ c.limit = 0
  /\ Cardinality(c.spec) = 1
  /\ \A cl \in c.spec : cl.cond.op = "regex"

\* C10: an ancestor query on kind K returns exactly the stored entities of
\* kind K whose encoded key starts with the ancestor's encoded key.
C10_AncestorExact ==
  (resp.op = "Next" /\ resp.ran /\ IsAncestorCursor(queries[resp.cursor]))
    => LET c == queries[resp.cursor]
           pattern == (CHOOSE cl \in c.spec : TRUE).cond.pattern
       IN {resp.matched[i] : i \in 1..Len(resp.matched)}
            = {doc \in DocsOf(db, c.coll) : StartsWith(doc._id, pattern)}

\* The descriptor a stored cursor was made from.
QueryOf(cursor) == queries[cursor].query

Results == {resp.result[i] : i \in 1..Len(resp.result)}

\* C11: every entity a query with ancestor a returns is a or a descendant
\* of a (its key path starts with a's path elements); an entity whose
\* name or id merely extends a's last identifier as a string is never
\* returned.
C11_OnlyDescendants ==
  (resp.op = "Next" /\ resp.cursor \in DOMAIN queries /\ QueryOf(resp.cursor).has_ancestor)
    => \A e \in Results : StartsWith(e.key, QueryOf(resp.cursor).ancestor)

\* The entities stored under kind `kind`, as they were put.
StoredOfKind(kind) == {w \in written : w.key[Len(w.key)].type = kind}

\* What a first Next found, as entities.
MatchedEntities ==
  {__entity_for_mongo_document(resp.matched[i]).entity : i \in 1..Len(resp.matched)}

\* a op b on integers.
IntHolds(op, a, b) ==
  CASE op = "<" -> a < b
    [] op = "<=" -> a <= b
    [] op = ">" -> a > b
    [] op = ">=" -> a >= b
    [] op = "==" -> a = b

\* a op b on strings, character by character.
StrHolds(op, a, b) ==
  CASE op = "<" -> SeqLess(Codes(a), Codes(b))
    [] op = "<=" -> SeqLess(Codes(a), Codes(b)) \/ a = b
    [] op = ">" -> SeqLess(Codes(b), Codes(a))
    [] op = ">=" -> SeqLess(Codes(b), Codes(a)) \/ a = b
    [] op = "==" -> a = b

\* A first Next on a cursor made from a descriptor of one filter and
\* nothing else.
SingleFilterRan ==
  /\ resp.op = "Next" /\ resp.ran
  /\ LET q == QueryOf(resp.cursor)
     IN /\ Len(q.filter_list) = 1 /\ Len(q.order_list) = 0
        /\ ~q.has_ancestor /\ ~q.has_offset /\ ~q.has_limit

TheFilter == QueryOf(resp.cursor).filter_list[1]

\* Property p is a number wherever it is present: in the stored entities
\* of the kind and in the sample the query was translated with.
IntValued(p, entities) ==
  \A e \in entities : (p \in DOMAIN e.props) => (e.props[p].type = "int")

\* C12: a query with a single filter (p, op, v) on a scalar property
\* returns exactly the stored entities of the kind whose p stands in
\* relation op to v, never one that lacks p; a filter on the key property
\* compares the encoded key with Encode(v).
C12_SingleFilter ==
  SingleFilterRan
    => LET q == QueryOf(resp.cursor)
           f == TheFilter
           stored == StoredOfKind(q.kind)
       IN IF f.property = "__key__"
          THEN MatchedEntities =
                 {e \in stored :
                    StrHolds(f.op, __id_for_key(e.key), __id_for_key(f.value.key))}
          ELSE (f.value.type = "int"
                  /\ IntValued(f.property, stored \cup {queries[resp.cursor].prototype}))
                 => MatchedEntities =
                      {e \in stored :
                         /\ f.property \in DOMAIN e.props
                         /\ IntHolds(f.op, e.props[f.property].int, f.value.int)}

C12_Witness ==
  /\ SingleFilterRan
  /\ TheFilter = Filter("x", "<", IntV(2))
  /\ \E e \in StoredOfKind(KA) : "x" \notin DOMAIN e.props
  /\ \E e \in StoredOfKind(KA) : "x" \in DOMAIN e.props /\ e.props.x = IntV(2)
  /\ Len(resp.matched) = 0

\* Property p is a list of numbers wherever it is present.
ListValued(p, entities) ==
  \A e \in entities :
    (p \in DOMAIN e.props)
      => /\ e.props[p].type = "list"
         /\ \A i \in 1..Len(e.props[p].list) : e.props[p].list[i].type = "int"

\* C13: a filter (p, op, v) on a list-valued property p returns exactly
\* the entities whose list p has an element in relation op to v (for
\* equality: whose list contains v); the list's stored record as a whole
\* is never what is compared.
C13_ListFilter ==
  (/\ SingleFilterRan
   /\ TheFilter.property # "__key__"
   /\ TheFilter.value.type = "int"
   /\ ListValued(TheFilter.property,
                 StoredOfKind(QueryOf(resp.cursor).kind) \cup {queries[resp.cursor].prototype}))
    => MatchedEntities =
         {e \in StoredOfKind(QueryOf(resp.cursor).kind) :
            /\ TheFilter.property \in DOMAIN e.props
            /\ \E i \in 1..Len(e.props[TheFilter.property].list) :
                 IntHolds(TheFilter.op, e.props[TheFilter.property].list[i].int,
                          TheFilter.value.int)}

\* A descriptor of two filters on one property and nothing else.
TwoOnOne(q) ==
  /\ Len(q.filter_list) = 2 /\ Len(q.order_list) = 0
  /\ ~q.has_ancestor /\ ~q.has_offset /\ ~q.has_limit
  /\ q.filter_list[1].property = q.filter_list[2].property
  /\ \A i \in 1..2 : q.filter_list[i].value.type = "int"

\* The stored entities of q's kind that satisfy every filter of q.
Satisfying(q) ==
  {e \in StoredOfKind(q.kind) :
     \A i \in 1..Len(q.filter_list) :
       /\ q.filter_list[i].property \in DOMAIN e.props
       /\ IntHolds(q.filter_list[i].op, e.props[q.filter_list[i].property].int,
                   q.filter_list[i].value.int)}

\* What a descriptor of two filters on one number-valued property should
\* give: a cursor when an entity satisfies both, the satisfying entities
\* at the first Next, and their number as the Count.
GivesSatisfying ==
  /\ (/\ resp.op = "RunQuery" /\ TwoOnOne(resp.query)
      /\ IntValued(resp.query.filter_list[1].property, StoredOfKind(resp.query.kind))
      /\ Satisfying(resp.query) # {})
       => (resp.error = "" /\ resp.cursor # 0)
  /\ (/\ resp.op = "Next" /\ resp.ran /\ TwoOnOne(QueryOf(resp.cursor))
      /\ IntValued(TheFilter.property,
                   StoredOfKind(QueryOf(resp.cursor).kind) \cup {queries[resp.cursor].prototype}))
       => MatchedEntities = Satisfying(QueryOf(resp.cursor))
  /\ (/\ resp.op = "Count" /\ TwoOnOne(resp.query)
      /\ IntValued(resp.query.filter_list[1].property, StoredOfKind(resp.query.kind)))
       => (resp.error = "" /\ resp.value = Cardinality(Satisfying(resp.query)))

IsRepeat(q) == Len(q.filter_list) = 2 /\ q.filter_list[1] = q.filter_list[2]

QueryAnswered ==
  IF resp.op \in {"RunQuery", "Count"} THEN resp.query
  ELSE IF resp.op = "Next" /\ resp.cursor \in DOMAIN queries THEN QueryOf(resp.cursor)
  ELSE BaseQuery(KA)

\* C14: two different filter clauses on the same property are both
\* applied: the query returns exactly the entities that satisfy both and
\* does not come out empty when some entity satisfies both.
C14_BothApplied == (~IsRepeat(QueryAnswered)) => GivesSatisfying

\* C15: a query carrying the same filter clause twice returns what the
\* query carrying it once returns (the entities in the relation), and has
\* the same Count.
C15_Idempotent == IsRepeat(QueryAnswered) => GivesSatisfying

\* Property p is stored, and is a long text or a blob wherever it is.
Unorderable(p, entities) ==
  /\ \E e \in entities : p \in DOMAIN e.props
  /\ \A e \in entities :
       (p \in DOMAIN e.props) => (e.props[p].type \in {"Text", "Blob"})

IsRange(f) == f.op \in {"<", "<=", ">", ">="}

\* C17: a query with a range filter on a property whose stored value is a
\* long text or a blob answers cursor 0 and no more results, and delivers
\* no entity.
C17_FailsClosed ==
  /\ (/\ resp.op = "RunQuery"
      /\ \E i \in 1..Len(resp.query.filter_list) :
           /\ IsRange(resp.query.filter_list[i])
           /\ Unorderable(resp.query.filter_list[i].property, StoredOfKind(resp.query.kind)))
       => (resp.cursor = 0 /\ ~resp.more_results)
  /\ (/\ resp.op = "Next" /\ resp.cursor \in DOMAIN queries
      /\ \E i \in 1..Len(QueryOf(resp.cursor).filter_list) :
           /\ IsRange(QueryOf(resp.cursor).filter_list[i])
           /\ Unorderable(QueryOf(resp.cursor).filter_list[i].property,
                          StoredOfKind(QueryOf(resp.cursor).kind)))
       => (resp.result = <<>>)

\* Order clause o cannot be translated with entity e as the sample: e
\* holds a long text or a blob at o's property, or lacks the property.
BadOrder(o, e) ==
  /\ o.property # "__key__"
  /\ (o.property \notin DOMAIN e.props \/ e.props[o.property].type \in {"Text", "Blob"})

HasBadOrder(q, e) == \E i \in 1..Len(q.order_list) : BadOrder(q.order_list[i], e)

\* Whichever stored entity is the sample, some order clause of q fails.
BadForEverySample(q) ==
  /\ StoredOfKind(q.kind) # {}
  /\ \A e \in StoredOfKind(q.kind) : HasBadOrder(q, e)

\* C16 as claimed: a query with an order clause on a property that is a
\* long text or a blob in the sample, or that the sample lacks, does not
\* raise and answers cursor 0 and no more results.
C16_UnorderableAsClaimed ==
  (resp.op = "RunQuery" /\ BadForEverySample(resp.query))
    => (resp.error = "" /\ resp.cursor = 0 /\ ~resp.more_results)

\* C16, amended: within the offset and component limits, a query with an
\* order clause on a property that is a long text or a blob in the sample,
\* or that the sample lacks, does not raise and answers cursor 0 and no
\* more results, wherever the clause stands among the order clauses; its
\* Count is 0.
C16_Unorderable ==
  /\ (resp.op = "RunQuery" /\ WithinLimits(resp.query) /\ Len(resp.query.order_list) > 0)
       => /\ resp.error = ""
          /\ (resp.cursor = 0) => ~resp.more_results
          /\ (resp.cursor # 0) => ~HasBadOrder(resp.query, queries[resp.cursor].prototype)
          /\ BadForEverySample(resp.query) => (resp.cursor = 0)
  /\ (resp.op = "Count" /\ WithinLimits(resp.query) /\ Len(resp.query.order_list) > 0)
       => /\ resp.error = ""
          /\ BadForEverySample(resp.query) => (resp.value = 0)
          /\ (resp.value # 0)
               => \E e \in StoredOfKind(resp.query.kind) : ~HasBadOrder(resp.query, e)

C16_Witness ==
  /\ resp.op = "RunQuery"
  /\ resp.query.order_list = <<Order("y", "ASCENDING"), Order("t", "DESCENDING")>>
  /\ \E e \in StoredOfKind(KA) : "t" \in DOMAIN e.props /\ e.props.t.type = "Text"
  /\ \E e \in StoredOfKind(KA) : "t" \notin DOMAIN e.props
  /\ resp.error = "" /\ resp.cursor = 0 /\ ~resp.more_results

Elements(l) == {l[i].int : i \in 1..Len(l)}

ListMin(l) == CHOOSE m \in Elements(l) : \A n \in Elements(l) : m <= n

ListMax(l) == CHOOSE m \in Elements(l) : \A n \in Elements(l) : m >= n

\* What a first Next found, as entities in the order of delivery.
MatchedSeq ==
  [i \in 1..Len(resp.matched) |-> __entity_for_mongo_document(resp.matched[i]).entity]

\* A first Next on a cursor ordered by the one property p, a list of
\* numbers wherever it is present.
OrderedByList(p) ==
  /\ resp.op = "Next" /\ resp.ran
  /\ Len(QueryOf(resp.cursor).order_list) = 1
  /\ QueryOf(resp.cursor).order_list[1].property = p
  /\ ~QueryOf(resp.cursor).has_offset /\ ~QueryOf(resp.cursor).has_limit
  /\ ListValued(p, StoredOfKind(QueryOf(resp.cursor).kind) \cup {queries[resp.cursor].prototype})

\* C18: ordering by a list-valued property delivers entities by
\* increasing least element of the list when ascending and by decreasing
\* greatest element when descending; the stored record of a list holds
\* the encoding of its least element as the ascending key and of its
\* greatest as the descending key.
C18_ListOrder ==
  /\ OrderedByList("x")
       => \A i \in 1..Len(MatchedSeq) : \A j \in (i + 1)..Len(MatchedSeq) :
            ("x" \in DOMAIN MatchedSeq[i].props /\ "x" \in DOMAIN MatchedSeq[j].props)
              => IF QueryOf(resp.cursor).order_list[1].direction = "ASCENDING"
                 THEN ListMin(MatchedSeq[i].props.x.list) <= ListMin(MatchedSeq[j].props.x.list)
                 ELSE ListMax(MatchedSeq[i].props.x.list) >= ListMax(MatchedSeq[j].props.x.list)
  /\ \A w \in written : \A r \in db :
       (r.doc._id = __id_for_key(w.key) /\ ListValued("x", {w}) /\ "x" \in DOMAIN w.props)
         => /\ r.doc.props.x.ascending_sort_key =
                 __create_mongo_value_for_value(IntV(ListMin(w.props.x.list)))
            /\ r.doc.props.x.descending_sort_key =
                 __create_mongo_value_for_value(IntV(ListMax(w.props.x.list)))

C18_Witness ==
  /\ OrderedByList("x")
  /\ QueryOf(resp.cursor).order_list[1].direction = "DESCENDING"
  /\ Len(resp.matched) = 2
  /\ \A i \in 1..2 : "x" \in DOMAIN MatchedSeq[i].props
  /\ MatchedSeq[1].props.x.list = <<IntV(4), IntV(1)>>
  /\ MatchedSeq[2].props.x.list = <<IntV(2), IntV(3)>>

\* A descriptor that only a composite index serves: an equality filter on
\* one property with an order on another.
NeedsCompositeIndex(q) ==
  \E i \in 1..Len(q.filter_list) : \E j \in 1..Len(q.order_list) :
    /\ q.filter_list[i].op = "=="
    /\ q.order_list[j].property # q.filter_list[i].property

\* C20: on a stub constructed with index enforcement, RunQuery of a query
\* that needs a composite index, none being defined, fails with a
\* need-index error.
C20_NeedIndex ==
  (resp.op = "RunQuery" /\ require_indexes /\ NeedsCompositeIndex(resp.query))
    => (resp.error = "NEED_INDEX")

\* C19: RunQuery and Count fail with a bad-request error when the offset
\* is greater than 1000 and when filters plus orders plus one for a
\* present ancestor number more than 100; offset 1000 and 100 components
\* are accepted.
C19_Limits ==
  (resp.op \in {"RunQuery", "Count"})
    => ((resp.error = "BAD_REQUEST") <=> ~WithinLimits(resp.query))

C19_Witness ==
  /\ resp.op = "RunQuery"
  /\ resp.query.has_ancestor
  /\ Len(resp.query.filter_list) = 99
  /\ DocsOf(db, resp.query.kind) # {}
  /\ resp.error = ""

\* C28: a Put of an entity without name and id never overwrites a stored
\* entity: the id it assigns differs from the id of every entity stored
\* under the same parent path and kind, so each such Put adds an entity to
\* the kind.
C28_FreshId ==
  (resp.op = "Put" /\ resp.ok /\ IsIncomplete(resp.entity.key)) => ~resp.replaced

\* What `query` gives on the present store with entity e as the sample:
\* whether a cursor is registered, and the sequences it may deliver.
GivenSample(query, e) ==
  LET c == translate(query, e)
  IN IF c.ok
     THEN [handle |-> "nonzero",
           sequences |-> {skip_limit(all, c.skip, c.limit) :
                            all \in cursor_orders(find(db, c.coll, c.spec), c.order)}]
     ELSE [handle |-> "zero", sequences |-> {<<>>}]

\* C30: the result of a query does not depend on which stored entity of
\* the kind is the type sample: with the store and the descriptor fixed,
\* any two samples give the same kind of handle (zero or nonzero) and the
\* same sequence of entities.
C30_SampleIndependent ==
  (resp.op = "RunQuery" /\ resp.error = "")
    => \A e1 \in StoredOfKind(resp.query.kind) : \A e2 \in StoredOfKind(resp.query.kind) :
         GivenSample(resp.query, e1) = GivenSample(resp.query, e2)

\* Entity e satisfies filter f on a number: its property is a number in
\* the relation, or a list with an element in the relation.
Satisfies(e, f) ==
  /\ f.property \in DOMAIN e.props
  /\ CASE e.props[f.property].type = "int" ->
             IntHolds(f.op, e.props[f.property].int, f.value.int)
        [] e.props[f.property].type = "list" ->
             \E i \in 1..Len(e.props[f.property].list) :
               /\ e.props[f.property].list[i].type = "int"
               /\ IntHolds(f.op, e.props[f.property].list[i].int, f.value.int)
        [] OTHER -> FALSE

\* The stored entities that match q's ancestor and filters.
Matching(q) ==
  {e \in StoredOfKind(q.kind) :
     /\ q.has_ancestor => StartsWith(e.key, q.ancestor)
     /\ \A i \in 1..Len(q.filter_list) : Satisfies(e, q.filter_list[i])}

\* Some choice of sample makes q answer handle 0.
MaySoftFail(q) ==
  \/ StoredOfKind(q.kind) = {}
  \/ \E e \in StoredOfKind(q.kind) : ~translate(q, e).ok

Capped(n, q) == IF q.has_limit /\ n > q.limit THEN q.limit ELSE n

\* C24: Count returns the number of stored entities matching the
\* descriptor's filters and ancestor, capped at its limit if it has one,
\* and 0 when the query answers handle 0.
C24_Count ==
  (resp.op = "Count" /\ resp.error = "")
    => \/ resp.value = Capped(Cardinality(Matching(resp.query)), resp.query)
       \/ resp.value = 0 /\ MaySoftFail(resp.query)

\* What cursor c has yet to deliver: the rest of what it found or, before
\* it has run, what its query finds past the offset and within the limit.
Remaining(c) ==
  IF c.executed THEN Len(c.rest)
  ELSE Len(skip_limit(CHOOSE all \in cursor_orders(find(db, c.coll, c.spec), c.order) : TRUE,
                      c.skip, c.limit))

\* C22: Next on a registered handle with count c returns min(c, remaining)
\* entities, more_results false exactly when fewer than c remained, and
\* leaves the handle registered, so that Next after the end returns no
\* entity, more_results false and no error.
C22_Advance ==
  [][(resp'.op = "Next" /\ resp'.cursor \in DOMAIN queries)
       => LET c == queries[resp'.cursor]
              n == Min(resp'.count, IF resp'.count = 0 THEN 0 ELSE Remaining(c))
          IN /\ resp'.error = ""
             /\ Len(resp'.result) = n
             /\ resp'.more_results = ~(n < resp'.count)
             /\ resp'.cursor \in DOMAIN queries'
             /\ resp'.count > 0 => Len(queries'[resp'.cursor].rest) = Remaining(c) - n]_vars

\* Next twice on the cursor over three entities, and once more after its end.
C22_Witness ==
  /\ resp.op = "Next" /\ resp.cursor \in DOMAIN queries
  /\ Cardinality(db) = 3
  /\ ~QueryOf(resp.cursor).has_limit /\ ~QueryOf(resp.cursor).has_offset
  /\ resp.count = 2 /\ ~resp.ran
  /\ resp.result = <<>> /\ ~resp.more_results /\ resp.error = ""

\* C23: Next on a nonzero handle that is not in the cursor table, never
\* issued or evicted by Count, fails with BAD_REQUEST and returns no entity;
\* Next on handle 0 returns no entity, more_results false and no error, and
\* leaves the cursor table alone.
C23_UnknownHandle ==
  [][resp'.op = "Next"
       => /\ (resp'.cursor # 0 /\ resp'.cursor \notin DOMAIN queries)
               => resp'.error = "BAD_REQUEST" /\ resp'.result = <<>>
          /\ resp'.cursor = 0
               => /\ resp'.error = "" /\ resp'.result = <<>> /\ ~resp'.more_results
                  /\ UNCHANGED <<queries, next_cursor>>]_vars

\* Next on the handle Count issued and evicted.
C23_Witness ==
  /\ resp.op = "Next" /\ resp.error = "BAD_REQUEST"
  /\ resp.cursor > 0 /\ resp.cursor < next_cursor
  /\ resp.cursor \notin DOMAIN queries

\* The sequence less its first o elements, cut to l elements if there is
\* a limit.
Window(seq, o, has_limit, l) ==
  LET from == IF o < Len(seq) THEN SubSeq(seq, o + 1, Len(seq)) ELSE <<>>
  IN IF has_limit /\ l < Len(from) THEN SubSeq(from, 1, l) ELSE from

\* C26: what a cursor delivers over its Next calls is the matching
\* entities in the order of the order clauses, less the first `offset`,
\* and at most `limit` of them.
C26_Delivered ==
  (resp.op = "Next" /\ resp.ran /\ resp.error = "")
    => LET c == queries[resp.cursor]
           q == QueryOf(resp.cursor)
       IN \E all \in cursor_orders(find(db, c.coll, c.spec), c.order) :
            resp.matched = Window(all, IF q.has_offset THEN q.offset ELSE 0,
                                  q.has_limit, q.limit)

TimesRun(history, q) == IF q \in DOMAIN history THEN history[q] ELSE 0

\* C27: every RunQuery that passes the BAD_REQUEST checks, Count's
\* included, adds exactly one to the history entry of the descriptor less
\* its hint, whatever it finds, and changes no other entry; a BAD_REQUEST
\* query leaves the history unchanged; no entry is ever removed or lowered.
C27_History ==
  [][/\ \A q \in DOMAIN query_history :
          q \in DOMAIN query_history' /\ query_history'[q] >= query_history[q]
     /\ resp'.op \in {"RunQuery", "Count"}
          => IF resp'.error = "BAD_REQUEST"
             THEN query_history' = query_history
             ELSE LET k == [resp'.query EXCEPT !.hint = "none"]
                  IN /\ DOMAIN query_history' = DOMAIN query_history \cup {k}
                     /\ query_history'[k] = TimesRun(query_history, k) + 1
                     /\ \A q \in DOMAIN query_history' \ {k} :
                          query_history'[q] = query_history[q]]_vars

\* Two registered queries that differ in their hint only, and the one
\* history entry they share.
C27_Witness ==
  /\ DOMAIN queries = {1, 2}
  /\ QueryOf(1).hint # QueryOf(2).hint
  /\ [QueryOf(1) EXCEPT !.hint = "none"] = [QueryOf(2) EXCEPT !.hint = "none"]
  /\ query_history = ([QueryOf(1) EXCEPT !.hint = "none"] :> 2)

\* C29: the handles of the cursor table and the handle counter change only
\* in a RunQuery that returns a nonzero handle and in Count; a RunQuery
\* answering BAD_REQUEST or handle 0, every Next, Put, Get, Delete,
\* BeginTransaction, Commit and Rollback leave both as they were.
C29_Frame ==
  [][/\ (\/ resp'.op \in {"Next", "Put", "Get", "Delete",
                           "BeginTransaction", "Commit", "Rollback"}
         \/ resp'.op = "RunQuery" /\ resp'.cursor = 0)
          => DOMAIN queries' = DOMAIN queries /\ next_cursor' = next_cursor
     /\ (DOMAIN queries' # DOMAIN queries \/ next_cursor' # next_cursor)
          => \/ resp'.op = "RunQuery" /\ resp'.cursor # 0
             \/ resp'.op = "Count"]_vars

\* A Delete that removed an entity while handle 2 was registered and
\* handle 1 had been evicted.
C29_Witness ==
  /\ resp.op = "Delete" /\ resp.removed
  /\ DOMAIN queries = {2} /\ next_cursor = 3

Allocated == {t \in Threads : threads[t].pc \in {"bump", "release", "insert", "count", "evict"}}

\* C21: under every interleaving of concurrent RunQuery and Count calls
\* the handles are read off the counter in strictly increasing order, all
\* positive, so none is issued twice, before or after an eviction; the
\* calls in flight and the cursors registered hold distinct handles.
C21_DistinctHandles ==
  /\ \A i \in 1..Len(issued) : issued[i] > 0
  /\ \A i \in 1..Len(issued) : \A j \in (i + 1)..Len(issued) : issued[i] < issued[j]
  /\ \A t \in Allocated : \A u \in Allocated \ {t} :
       threads[t].cursor_index # threads[u].cursor_index
  /\ \A t \in Allocated : threads[t].pc \in {"bump", "release", "insert"}
       => threads[t].cursor_index \notin DOMAIN queries
  /\ \A h \in DOMAIN queries : h > 0 /\ \E i \in 1..Len(issued) : issued[i] = h
  /\ resp.op \in {"RunQuery", "Count"} /\ resp.cursor # 0
       => \E i \in 1..Len(issued) : issued[i] = resp.cursor

\* Two calls in flight together, each with its handle, after Count evicted
\* an earlier one.
C21_Witness ==
  /\ resp.op = "Count" /\ resp.cursor = 1
  /\ \A t \in Threads : threads[t].pc = "insert"
  /\ Len(issued) = 3

\* C25: a thread writes the cursor table, inserting in RunQuery and
\* deleting in Count, only while it holds the cursor lock, and never holds
\* the lock while it reads the store.
C25_TableUnderLock ==
  \A t \in Threads :
    /\ threads[t].pc \in {"insert", "evict"} => cursor_lock = t
    /\ threads[t].pc \in {"find_one", "count"} => cursor_lock # t

====
